---------------------------- MODULE Spec2Model ----------------------------
(***************************************************************************)
(* Client-side scripts of the NanoSchool course catalog: index.js (home    *)
(* page), listing.js (catalog page), domain.js, track.js, home.js,         *)
(* theme.js and scroll.js.                                                 *)
(*                                                                         *)
(* Strings that the scripts take apart (course titles, the search box)     *)
(* are tuples of one-character strings.  Names that are only compared      *)
(* (tracks, domains, tools, levels, option values) are atomic strings.     *)
(* Ratings are kept in tenths (4.5 is 45).                                 *)
(***************************************************************************)
EXTENDS Integers, Sequences, FiniteSets, TLC

VARIABLES
    page,             \* which HTML page is loaded
    ready,            \* DOMContentLoaded listeners have run
    error,            \* an uncaught exception was raised by a script
    courses,          \* the global courses array (coursesData)
    query,            \* window.location.search, parsed
    searchValue,      \* searchInput.value
    options,          \* per facet: the non-placeholder <option> values, in order
    sel,              \* per facet: the values of the selected options
    ratingValue,      \* ratingFilter.value (listing)
    durationValue,    \* durationFilter.value (listing)
    sortValue,        \* sortBySelect.value
    currentView,      \* 'grid' | 'list'
    currentPage,      \* pagination / load-more page
    filteredCourses,  \* result of the last applyFilters
    optCount,         \* per facet and option: count in the option label (-1: none)
    optDisabled,      \* per facet and option: opt.disabled
    allDisabled,      \* per facet: disabled flag of the placeholder option
    chips,            \* children of #activeFilters, in order
    pagesShown,       \* children of #paginationControls between Prev and Next
    suggestions,      \* titles offered in the visible suggestions dropdown
    featured,         \* cards in #featuredCoursesContainer
    pageList,         \* cards of #courseList on the domain / track page
    docTitle,         \* document.title
    metaDesc,         \* meta[name=description] content
    metaKeywords,     \* meta[name=keywords] content
    keywordsBase,     \* meta[name=keywords] data-base attribute (<<>>: none)
    storedTheme,      \* localStorage 'theme'
    htmlDark,         \* documentElement has class 'dark'
    scrollY,          \* window.scrollY
    scrollBtnHidden,  \* #scrollTopBtn has class 'hidden'
    categoriesPage,   \* categoriesPage / categoriesPageHome
    categoriesShown,  \* cards in #categoriesContainer
    categoriesButton, \* text of the button below the categories ("none": no button)
    budget,           \* user events on the filter controls still to be explored
    lastEvent         \* the event handled last, and currentPage when it arrived

vars == <<page, ready, error, courses, query, searchValue, options, sel,
          ratingValue, durationValue, sortValue, currentView, currentPage,
          filteredCourses, optCount, optDisabled, allDisabled, chips,
          pagesShown, suggestions, featured, pageList, docTitle, metaDesc,
          metaKeywords, keywordsBase, storedTheme, htmlDark, scrollY, scrollBtnHidden,
          categoriesPage, categoriesShown, categoriesButton, budget, lastEvent>>

\* The state of the filter controls and of what is rendered from them.
filterVars == <<searchValue, options, sel, ratingValue, durationValue, sortValue,
                currentView, currentPage, filteredCourses, optCount, optDisabled,
                allDisabled, chips, pagesShown, suggestions, featured, pageList,
                docTitle, metaDesc, metaKeywords>>

\* The state of theme.js and scroll.js.
chromeVars == <<storedTheme, htmlDark, scrollY, scrollBtnHidden>>

\* The state of the category cards.
categoryVars == <<categoriesPage, categoriesShown, categoriesButton>>

---------------------------------------------------------------------------
(* Bounds of the model *)

\* Largest number of courses loaded on the filter pages.
MaxCourses == 3

\* Number of user events on the filter controls explored after a page load.
MaxSteps == 2

\* Largest number of listing pages the course data fills.
MaxPages == 8

\* Largest number of distinct domains in the course data of the category pages.
MaxCategories == 17

\* The budget of a session that is explored without a limit.
Unlimited == 0 - 1

---------------------------------------------------------------------------
(* Program constants *)

coursesPerPage == 6
itemsPerPage == 12
categoriesPerPage == 8
ScrollThreshold == 200

---------------------------------------------------------------------------
(* Generic helpers *)

Range(s) == {s[i] : i \in 1..Len(s)}

Min(a, b) == IF a < b THEN a ELSE b

Max(a, b) == IF a > b THEN a ELSE b

\* Math.ceil(n / d) for n >= 0, d > 0
CeilDiv(n, d) == (n + d - 1) \div d

\* Array.prototype.slice(from0, to0) with 0-based, end-exclusive indices
Slice(s, from0, to0) == SubSeq(s, from0 + 1, Min(to0, Len(s)))

---------------------------------------------------------------------------
(* Strings as tuples of characters *)

\* String.prototype.toLowerCase on one character
LowerChar(c) ==
    CASE c = "A" -> "a"
      [] c = "B" -> "b"
      [] OTHER -> c

ToLowerCase(s) == [i \in 1..Len(s) |-> LowerChar(s[i])]

\* String.prototype.trim
RECURSIVE TrimLeft(_)
TrimLeft(s) == IF s # <<>> /\ Head(s) = " " THEN TrimLeft(Tail(s)) ELSE s

RECURSIVE TrimRight(_)
TrimRight(s) ==
    IF s # <<>> /\ s[Len(s)] = " " THEN TrimRight(SubSeq(s, 1, Len(s) - 1)) ELSE s

Trim(s) == TrimRight(TrimLeft(s))

\* String.prototype.includes
Includes(s, t) ==
    \E i \in 1..(Len(s) - Len(t) + 1) : SubSeq(s, i, i + Len(t) - 1) = t

\* String.prototype.localeCompare (root collation): letters are compared without
\* regard to case first, a blank before any letter; strings equal up to case are
\* ordered by the first position where the case differs, lower case first.
PrimaryKey(c) ==
    CASE c = " " -> 0
      [] c \in {"a", "A"} -> 1
      [] c \in {"b", "B"} -> 2
      [] OTHER -> 3

TertiaryKey(c) == IF c \in {"A", "B"} THEN 1 ELSE 0

RECURSIVE LexCompare(_, _)
LexCompare(ka, kb) ==
    IF ka = <<>> /\ kb = <<>> THEN 0
    ELSE IF ka = <<>> THEN -1
    ELSE IF kb = <<>> THEN 1
    ELSE IF Head(ka) < Head(kb) THEN -1
    ELSE IF Head(ka) > Head(kb) THEN 1
    ELSE LexCompare(Tail(ka), Tail(kb))

LocaleCompare(a, b) ==
    LET p == LexCompare([i \in 1..Len(a) |-> PrimaryKey(a[i])],
                        [i \in 1..Len(b) |-> PrimaryKey(b[i])])
    IN  IF p # 0 THEN p
        ELSE LexCompare([i \in 1..Len(a) |-> TertiaryKey(a[i])],
                        [i \in 1..Len(b) |-> TertiaryKey(b[i])])

---------------------------------------------------------------------------
(* The course data (courses.js is loaded before the page scripts) *)

Facets == {"track", "domain", "tool", "level"}

\* The <option>s of #levelFilter are static markup.
LevelOptions == <<"Beginner", "Advanced">>

\* Every name of the data, in the order of Array.prototype.sort() (code units).
NameOrder ==
    <<"AI", "Agriculture", "Biology", "Chemistry", "Climate", "Defense", "Education",
      "Energy", "Finance", "Genomics", "Health", "Law", "ML (Applied)", "Materials",
      "Media", "Nutrition", "Oceans", "Physics", "Python", "R", "Robotics", "Space",
      "Transport", "Water">>

NameRank(n) == CHOOSE i \in 1..Len(NameOrder) : NameOrder[i] = n

\* A course record.  undef names the properties the record does not have.
BaseCourses == <<
    [id |-> 1, title |-> <<"B", "a">>, track |-> "AI",
     domains |-> {"Health"}, tools |-> {"Python"}, level |-> "Beginner",
     rating |-> 45, weeks |-> 3, students |-> 900, undef |-> {}],
    [id |-> 2, title |-> <<"a", "b">>, track |-> "ML (Applied)",
     domains |-> {"Health", "Space"}, tools |-> {"Python", "R"}, level |-> "Advanced",
     rating |-> 40, weeks |-> 6, students |-> 1500, undef |-> {}],
    [id |-> 3, title |-> <<"A", "b">>, track |-> "AI",
     domains |-> {"Space"}, tools |-> {"R"}, level |-> "Advanced",
     rating |-> 48, weeks |-> 10, students |-> 1500, undef |-> {}],
    [id |-> 4, title |-> <<"b">>, track |-> "",
     domains |-> {}, tools |-> {"Python"}, level |-> "Beginner",
     rating |-> 30, weeks |-> 8, students |-> 200, undef |-> {}] >>

Course(i) == [BaseCourses[((i - 1) % Len(BaseCourses)) + 1] EXCEPT !.id = i]

\* coursesData with n records
CourseData(n) == [i \in 1..n |-> Course(i)]

\* Domain names of a larger catalog
CategoryNames ==
    <<"Agriculture", "Biology", "Chemistry", "Climate", "Defense", "Education",
      "Energy", "Finance", "Genomics", "Health", "Law", "Materials", "Media",
      "Nutrition", "Oceans", "Physics", "Robotics", "Space", "Transport", "Water">>

CategoryName(i) == CategoryNames[((i - 1) % Len(CategoryNames)) + 1]

\* coursesData with n records over n distinct domains (as long as the names
\* last), each record in its own domain and in the one before
CategoryCourses(n) ==
    [i \in 1..n |-> [Course(i) EXCEPT !.domains = {CategoryName(i), CategoryName(Max(1, i - 1))}]]

---------------------------------------------------------------------------
(* Sorting *)

\* The comparator with the rating case in ascending order
CompareByRatingAscending(sortBy, a, b) ==
    CASE sortBy = "rating" -> a.rating - b.rating
      [] sortBy = "students" -> b.students - a.students
      [] sortBy = "duration" -> a.weeks - b.weeks
      [] OTHER -> LocaleCompare(a.title, b.title)

\* The comparator of applyFilters' filteredCourses.sort
CompareBy(sortBy, a, b) ==
    CASE sortBy = "rating" -> b.rating - a.rating
      [] sortBy = "students" -> b.students - a.students
      [] sortBy = "duration" -> a.weeks - b.weeks
      [] OTHER -> LocaleCompare(a.title, b.title)

\* Merging two sorted runs; of two elements that compare equal the one of
\* the left run goes first
RECURSIVE MergeBy(_, _, _)
MergeBy(sortBy, a, b) ==
    IF a = <<>> THEN b
    ELSE IF b = <<>> THEN a
    ELSE IF CompareBy(sortBy, Head(a), Head(b)) <= 0
         THEN <<Head(a)>> \o MergeBy(sortBy, Tail(a), b)
    ELSE <<Head(b)>> \o MergeBy(sortBy, a, Tail(b))

\* Array.prototype.sort with the comparator above (stable since ES2019)
RECURSIVE SortCourses(_, _)
SortCourses(s, sortBy) ==
    IF Len(s) <= 1 THEN s
    ELSE MergeBy(sortBy, SortCourses(SubSeq(s, 1, Len(s) \div 2), sortBy),
                 SortCourses(SubSeq(s, Len(s) \div 2 + 1, Len(s)), sortBy))

\* The comparator of renderFeaturedCourses: rating * students, descending
CompareFeatured(a, b) == (b.rating * b.students) - (a.rating * a.students)

RECURSIVE MergeFeatured(_, _)
MergeFeatured(a, b) ==
    IF a = <<>> THEN b
    ELSE IF b = <<>> THEN a
    ELSE IF CompareFeatured(Head(a), Head(b)) <= 0
         THEN <<Head(a)>> \o MergeFeatured(Tail(a), b)
    ELSE <<Head(b)>> \o MergeFeatured(a, Tail(b))

\* [...courses].sort with the comparator above
RECURSIVE SortFeatured(_)
SortFeatured(s) ==
    IF Len(s) <= 1 THEN s
    ELSE MergeFeatured(SortFeatured(SubSeq(s, 1, Len(s) \div 2)),
                       SortFeatured(SubSeq(s, Len(s) \div 2 + 1, Len(s))))

\* Array.from(set).sort() on names
RECURSIVE SortNames(_)
SortNames(S) ==
    IF S = {} THEN <<>>
    ELSE LET m == CHOOSE x \in S : \A y \in S : NameRank(x) <= NameRank(y)
         IN  <<m>> \o SortNames(S \ {m})

---------------------------------------------------------------------------
(* <select> elements *)

\* Insertion order of a Set built by tracks.add over the array
TrackOptions(cs) ==
    LET Named(i) == "track" \notin cs[i].undef /\ cs[i].track # ""
        tracks == {cs[i].track : i \in {j \in 1..Len(cs) : Named(j)}}
        First(x) == CHOOSE i \in 1..Len(cs) :
                        /\ Named(i) /\ cs[i].track = x
                        /\ \A j \in 1..(i - 1) : ~(Named(j) /\ cs[j].track = x)
    IN  [k \in 1..Cardinality(tracks) |->
            CHOOSE x \in tracks :
                Cardinality({y \in tracks : First(y) < First(x)}) = k - 1]

\* populateFilters: the options appended to the four selects
PopulateFilters(cs) ==
    [track |-> TrackOptions(cs),
     domain |-> SortNames(UNION {cs[i].domains : i \in 1..Len(cs)}),
     tool |-> SortNames(UNION {cs[i].tools : i \in 1..Len(cs)}),
     level |-> LevelOptions]

\* populateFilters calls course.domains.forEach and course.tools.forEach
PopulateFiltersThrows(cs) ==
    \E i \in 1..Len(cs) : cs[i].undef \cap {"domains", "tools"} # {}

\* select.value: the value of the first selected option, '' when there is
\* none (or when it is the placeholder)
SelectValue(opts, selected) ==
    IF \E i \in 1..Len(opts) : opts[i] \in selected
    THEN opts[CHOOSE i \in 1..Len(opts) :
                 opts[i] \in selected /\ \A j \in 1..(i - 1) : opts[j] \notin selected]
    ELSE ""

\* select.value = v: the option with that value becomes the only selected one;
\* without such an option nothing (but the placeholder, for '') is selected
SetSelectValue(opts, v) == IF v \in Range(opts) THEN {v} ELSE {}

NoSelection == [f \in Facets |-> {}]

---------------------------------------------------------------------------
(* listing.js: applyFilters and updateFilterCounts *)

NaN == -1

\* parseFloat of the values of #ratingFilter, in tenths
ParseFloat(v) ==
    CASE v = "0" -> 0
      [] v = "4" -> 40
      [] v = "4.5" -> 45
      [] OTHER -> NaN

RatingThreshold(rv) == ParseFloat(IF rv = "" THEN "0" ELSE rv)

PassesRating(course, threshold) ==
    ~(threshold # NaN /\ threshold > 0 /\ course.rating < threshold)

PassesDuration(course, durationCategory) ==
    IF durationCategory # "" /\ durationCategory # "all"
    THEN /\ ~(durationCategory = "short" /\ ~(course.weeks < 4))
         /\ ~(durationCategory = "medium" /\ ~(course.weeks >= 4 /\ course.weeks <= 8))
         /\ ~(durationCategory = "long" /\ ~(course.weeks > 8))
    ELSE TRUE

MatchesTerm(course, term) ==
    ~(term # <<>> /\ ~Includes(ToLowerCase(course.title), term))

\* The predicate of courses.filter in listing.js applyFilters
ListingMatches(course, term, S, threshold, durationCategory) ==
    /\ MatchesTerm(course, term)
    /\ ~(S.track # {} /\ course.track \notin S.track)
    /\ ~(S.domain # {} /\ course.domains \cap S.domain = {})
    /\ ~(S.tool # {} /\ course.tools \cap S.tool = {})
    /\ ~(S.level # {} /\ course.level \notin S.level)
    /\ PassesRating(course, threshold)
    /\ PassesDuration(course, durationCategory)

\* filteredCourses of listing.js before the sort
ListingFilter(cs, sv, S, rv, dv) ==
    LET searchTerm == ToLowerCase(Trim(sv))
        ratingThreshold == RatingThreshold(rv)
        Keep(c) == ListingMatches(c, searchTerm, S, ratingThreshold, dv)
    IN  SelectSeq(cs, Keep)

\* baseFiltered of updateFilterCounts
BaseFiltered(cs, sv, rv, dv) ==
    LET term == ToLowerCase(Trim(sv))
        ratingThreshold == RatingThreshold(rv)
        Keep(c) == /\ MatchesTerm(c, term)
                   /\ PassesRating(c, ratingThreshold)
                   /\ PassesDuration(c, dv)
    IN  SelectSeq(cs, Keep)

\* countByTrack without the "|| selectedTracks.includes(course.track)" arm
countByTrackAlone(base, S, track) ==
    LET Hit(c) == /\ ~(S.domain # {} /\ c.domains \cap S.domain = {})
                  /\ ~(S.tool # {} /\ c.tools \cap S.tool = {})
                  /\ ~(S.level # {} /\ c.level \notin S.level)
                  /\ c.track = track
    IN  Len(SelectSeq(base, Hit))

countByTrack(base, S, track) ==
    LET Hit(c) == /\ ~(S.domain # {} /\ c.domains \cap S.domain = {})
                  /\ ~(S.tool # {} /\ c.tools \cap S.tool = {})
                  /\ ~(S.level # {} /\ c.level \notin S.level)
                  /\ (c.track = track \/ c.track \in S.track)
    IN  Len(SelectSeq(base, Hit))

countByDomain(base, S, domain) ==
    LET Hit(c) == /\ ~(S.track # {} /\ c.track \notin S.track)
                  /\ ~(S.tool # {} /\ c.tools \cap S.tool = {})
                  /\ ~(S.level # {} /\ c.level \notin S.level)
                  /\ (domain \in c.domains \/ c.domains \cap S.domain # {})
    IN  Len(SelectSeq(base, Hit))

countByTool(base, S, tool) ==
    LET Hit(c) == /\ ~(S.track # {} /\ c.track \notin S.track)
                  /\ ~(S.domain # {} /\ c.domains \cap S.domain = {})
                  /\ ~(S.level # {} /\ c.level \notin S.level)
                  /\ (tool \in c.tools \/ c.tools \cap S.tool # {})
    IN  Len(SelectSeq(base, Hit))

countByLevel(base, S, level) ==
    LET Hit(c) == /\ ~(S.track # {} /\ c.track \notin S.track)
                  /\ ~(S.domain # {} /\ c.domains \cap S.domain = {})
                  /\ ~(S.tool # {} /\ c.tools \cap S.tool = {})
                  /\ (c.level = level \/ c.level \in S.level)
    IN  Len(SelectSeq(base, Hit))

\* The count updateFilterCounts (listing.js) writes into the label of option v
ListingCount(base, S, f, v) ==
    CASE f = "track" -> countByTrack(base, S, v)
      [] f = "domain" -> countByDomain(base, S, v)
      [] f = "tool" -> countByTool(base, S, v)
      [] f = "level" -> countByLevel(base, S, v)

---------------------------------------------------------------------------
(* index.js: applyFilters and updateFilterCounts *)

\* The predicate of courses.filter in index.js applyFilters; each selected*
\* is a select's value, '' for "All"
HomeMatches(course, term, track, domain, tool, level) ==
    /\ MatchesTerm(course, term)
    /\ ~(track # "" /\ course.track # track)
    /\ ~(domain # "" /\ domain \notin course.domains)
    /\ ~(tool # "" /\ tool \notin course.tools)
    /\ ~(level # "" /\ course.level # level)

\* filteredCourses of index.js before the sort; V maps each facet to its value
HomeFilter(cs, sv, V) ==
    LET searchTerm == ToLowerCase(Trim(sv))
        Keep(c) == HomeMatches(c, searchTerm, V.track, V.domain, V.tool, V.level)
    IN  SelectSeq(cs, Keep)

\* countFor without the search term test
countForAnyTerm(cs, term, track, domain, tool, level) ==
    LET Hit(c) == /\ ~(track # "" /\ c.track # track)
                  /\ ~(domain # "" /\ domain \notin c.domains)
                  /\ ~(tool # "" /\ tool \notin c.tools)
                  /\ ~(level # "" /\ c.level # level)
    IN  Len(SelectSeq(cs, Hit))

\* countFor({track, domain, tool, level}); null is ''
countFor(cs, term, track, domain, tool, level) ==
    LET Hit(c) == /\ MatchesTerm(c, term)
                  /\ ~(track # "" /\ c.track # track)
                  /\ ~(domain # "" /\ domain \notin c.domains)
                  /\ ~(tool # "" /\ tool \notin c.tools)
                  /\ ~(level # "" /\ c.level # level)
    IN  Len(SelectSeq(cs, Hit))

homeCountDomain(cs, term, V, val) ==
    LET Hit(c) == /\ MatchesTerm(c, term)
                  /\ ~(V.track # "" /\ c.track # V.track)
                  /\ val \in c.domains
                  /\ ~(V.tool # "" /\ V.tool \notin c.tools)
                  /\ ~(V.level # "" /\ c.level # V.level)
    IN  Len(SelectSeq(cs, Hit))

homeCountTool(cs, term, V, val) ==
    LET Hit(c) == /\ MatchesTerm(c, term)
                  /\ ~(V.track # "" /\ c.track # V.track)
                  /\ ~(V.domain # "" /\ V.domain \notin c.domains)
                  /\ val \in c.tools
                  /\ ~(V.level # "" /\ c.level # V.level)
    IN  Len(SelectSeq(cs, Hit))

homeCountLevel(cs, term, V, val) ==
    LET Hit(c) == /\ MatchesTerm(c, term)
                  /\ ~(V.track # "" /\ c.track # V.track)
                  /\ ~(V.domain # "" /\ V.domain \notin c.domains)
                  /\ ~(V.tool # "" /\ V.tool \notin c.tools)
                  /\ c.level = val
    IN  Len(SelectSeq(cs, Hit))

\* The count updateFilterCounts (index.js) writes into the label of option v
HomeCount(cs, term, V, f, v) ==
    CASE f = "track" -> countFor(cs, term, v, V.domain, V.tool, V.level)
      [] f = "domain" -> homeCountDomain(cs, term, V, v)
      [] f = "tool" -> homeCountTool(cs, term, V, v)
      [] f = "level" -> homeCountLevel(cs, term, V, v)

---------------------------------------------------------------------------
(* Rendering: option labels, chips, pagination, meta tags *)

\* The values of the four selects as index.js reads them (select.value)
Values(opts, S) == [f \in Facets |-> SelectValue(opts[f], S[f])]

\* An option that a count of one also disables
OptionDisabledBelowTwo(count) == count < 2

\* opt.disabled = count === 0
OptionDisabled(count) == count = 0

\* opt.disabled = false on the option with the empty value
PlaceholderDisabled == FALSE

\* updateFilterCounts of listing.js: the labels and disabled flags it leaves.
\* old is what the options show before the call.
ListingFilterCounts(cs, opts, sv, S, rv, dv, old) ==
    LET base == BaseFiltered(cs, sv, rv, dv)
        count == [f \in Facets |-> [v \in Range(opts[f]) |-> ListingCount(base, S, f, v)]]
    IN  IF Len(cs) = 0 THEN old
        ELSE [count |-> count,
              disabled |-> [f \in Facets |-> [v \in Range(opts[f]) |->
                               OptionDisabled(count[f][v])]],
              all |-> [f \in Facets |-> PlaceholderDisabled]]

\* updateFilterCounts of index.js
HomeFilterCounts(cs, opts, sv, S, old) ==
    LET term == ToLowerCase(Trim(sv))
        V == Values(opts, S)
        count == [f \in Facets |-> [v \in Range(opts[f]) |-> HomeCount(cs, term, V, f, v)]]
    IN  IF Len(cs) = 0 THEN old
        ELSE [count |-> count,
              disabled |-> [f \in Facets |-> [v \in Range(opts[f]) |->
                               OptionDisabled(count[f][v])]],
              all |-> [f \in Facets |-> PlaceholderDisabled]]

\* createChip(label, type, value); term is the value of a search chip
Chip(type, value, term) == [type |-> type, value |-> value, term |-> term]

ClearAllChip == Chip("clearAll", "", <<>>)

\* selectedOptions, in document order, without the placeholder
SelectedOptions(opts, selected) ==
    LET Keep(v) == v \in selected
    IN  SelectSeq(opts, Keep)

FacetChips(f, vals) == [i \in 1..Len(vals) |-> Chip(f, vals[i], <<>>)]

\* A 'Clear all' button that a single chip already brings
WithClearAllFromOne(cs) == IF Len(cs) > 0 THEN Append(cs, ClearAllChip) ELSE cs

\* if (chips.length > 1) chips.push(clearChip)
WithClearAll(cs) == IF Len(cs) > 1 THEN Append(cs, ClearAllChip) ELSE cs

\* updateActiveFilters of listing.js
ListingChips(opts, sv, S, rv, dv) ==
    WithClearAll(
        (IF Trim(sv) # <<>> THEN <<Chip("search", "", Trim(sv))>> ELSE <<>>)
        \o FacetChips("track", SelectedOptions(opts.track, S.track))
        \o FacetChips("domain", SelectedOptions(opts.domain, S.domain))
        \o FacetChips("tool", SelectedOptions(opts.tool, S.tool))
        \o FacetChips("level", SelectedOptions(opts.level, S.level))
        \o (IF rv # "" /\ rv # "0" THEN <<Chip("rating", rv, <<>>)>> ELSE <<>>)
        \o (IF dv # "" /\ dv # "all" THEN <<Chip("duration", dv, <<>>)>> ELSE <<>>))

\* updateActiveFilters of index.js
HomeChips(sv, V) ==
    WithClearAll(
        (IF Trim(sv) # <<>> THEN <<Chip("search", "", Trim(sv))>> ELSE <<>>)
        \o (IF V.track # "" THEN <<Chip("track", V.track, <<>>)>> ELSE <<>>)
        \o (IF V.domain # "" THEN <<Chip("domain", V.domain, <<>>)>> ELSE <<>>)
        \o (IF V.tool # "" THEN <<Chip("tool", V.tool, <<>>)>> ELSE <<>>)
        \o (IF V.level # "" THEN <<Chip("level", V.level, <<>>)>> ELSE <<>>))

PageButton(i) == [type |-> "page", page |-> i]

Ellipsis == [type |-> "ellipsis", page |-> 0]

\* pagesToShow with the leading ellipsis pushed as soon as the current page
\* is not one of the first two
PagesToShowEager(totalPages, cp) ==
    IF totalPages <= 7 THEN [i \in 1..totalPages |-> PageButton(i)]
    ELSE LET start == Max(2, cp - 1)
             end == Min(totalPages - 1, cp + 1)
         IN  <<PageButton(1)>>
             \o (IF cp > 2 THEN <<Ellipsis>> ELSE <<>>)
             \o [i \in 1..(end - start + 1) |-> PageButton(start + i - 1)]
             \o (IF cp < totalPages - 2 THEN <<Ellipsis>> ELSE <<>>)
             \o <<PageButton(totalPages)>>

\* pagesToShow of renderPagination
PagesToShow(totalPages, cp) ==
    IF totalPages <= 7 THEN [i \in 1..totalPages |-> PageButton(i)]
    ELSE LET start == Max(2, cp - 1)
             end == Min(totalPages - 1, cp + 1)
         IN  <<PageButton(1)>>
             \o (IF cp > 3 THEN <<Ellipsis>> ELSE <<>>)
             \o [i \in 1..(end - start + 1) |-> PageButton(start + i - 1)]
             \o (IF cp < totalPages - 2 THEN <<Ellipsis>> ELSE <<>>)
             \o <<PageButton(totalPages)>>

TotalPages(fc) == CeilDiv(Len(fc), coursesPerPage)

\* What renderCourses (listing.js) leaves in #paginationControls between the
\* Prev and Next buttons; empty when the controls are cleared
RenderPagination(fc, cp) ==
    IF Len(fc) = 0 \/ TotalPages(fc) <= 1 THEN <<>>
    ELSE PagesToShow(TotalPages(fc), cp)

\* The cards renderCourses puts into #coursesContainer
ListingCards(fc, cp) == Slice(fc, (cp - 1) * coursesPerPage, (cp - 1) * coursesPerPage + coursesPerPage)

HomeCards(fc, cp) == Slice(fc, 0, cp * itemsPerPage)

\* renderCourses of index.js appends a Load More button
LoadMoreShown(fc, cp) == Len(fc) # 0 /\ Len(fc) > Len(HomeCards(fc, cp))

\* .replace(/\(.*?\)/g, '').replace(/["'<>]/g, '').trim() on the names of the data
Clean(name) ==
    CASE name = "ML (Applied)" -> "ML"
      [] OTHER -> name

Piece(name, suffix) == [name |-> name, suffix |-> suffix]

BaseTitle == <<"Course Catalog | NanoSchool">>

BaseDesc == [form |-> "base", track |-> "", domain |-> ""]

\* The keywords of the static markup
StaticKeywords == <<Piece("AI courses, ML courses, NanoSchool", "")>>

\* The data-base attribute of a markup that repeats the keywords in it
KeywordsDataBase == StaticKeywords

\* updateMetaTags of listing.js; t, d, tool, level are the selects' values and
\* content is the current content of the keywords meta
UpdateMetaTags(t, d, tool, level, content) ==
    LET baseKeywords == IF keywordsBase # <<>> THEN keywordsBase ELSE content
        k1 == IF t # "" THEN <<Piece(Clean(t), " courses")>> \o baseKeywords ELSE baseKeywords
        k2 == IF d # "" THEN <<Piece(Clean(d), " courses")>> \o k1 ELSE k1
        k3 == IF tool # "" THEN <<Piece(Clean(tool), "")>> \o k2 ELSE k2
        k4 == IF level # "" THEN <<Piece(Clean(level), " level")>> \o k3 ELSE k3
    IN  [title |-> IF t # "" THEN <<Clean(t), " Courses Catalog | NanoSchool">>
                   ELSE IF d # "" THEN <<Clean(d), " Courses Catalog | NanoSchool">>
                   ELSE BaseTitle,
         desc |-> IF t # "" /\ d # "" THEN [form |-> "trackDomain", track |-> t, domain |-> Clean(d)]
                  ELSE IF t # "" THEN [form |-> "track", track |-> Clean(t), domain |-> ""]
                  ELSE IF d # "" THEN [form |-> "domain", track |-> "", domain |-> Clean(d)]
                  ELSE BaseDesc,
         keywords |-> k4]

\* renderFeaturedCourses: sorts a copy ([...courses]) and shows the first six.
\* courses is the global array after the call.
\* renderFeaturedCourses sorting courses itself instead of a copy
RenderFeaturedCoursesInPlace(cs) ==
    [courses |-> SortFeatured(cs), featured |-> Slice(SortFeatured(cs), 0, 6)]

RenderFeaturedCourses(cs) ==
    [courses |-> cs, featured |-> Slice(SortFeatured(cs), 0, 6)]

\* Object.keys(domainCounts).sort((a, b) => a.localeCompare(b)); on the
\* domain names of the data localeCompare orders as NameOrder does.
\* renderCategoriesHome skips a record without a domains array.
SortedDomains(cs) ==
    SortNames(UNION {IF "domains" \in cs[i].undef THEN {} ELSE cs[i].domains :
                        i \in 1..Len(cs)})

\* A button that is rendered however few categories there are
CategoriesButtonWhenever(total, cp) ==
    IF categoriesPerPage * cp >= total THEN "Show Less" ELSE "Show More"

\* The button renderCategories puts below the cards
CategoriesButton(total, cp) ==
    IF total > categoriesPerPage
    THEN IF categoriesPerPage * cp >= total THEN "Show Less" ELSE "Show More"
    ELSE "none"

\* renderCategories (index.js) and renderCategoriesHome (home.js): the cards
\* and the button they leave on page cp of the categories
RenderCategories(cs, cp) ==
    LET sorted == SortedDomains(cs)
        visibleCount == Min(categoriesPerPage * cp, Len(sorted))
    IN  [shown |-> Slice(sorted, 0, visibleCount),
         button |-> CategoriesButton(Len(sorted), cp)]

\* The suggestions handleSearchInput leaves visible
Suggestions(cs, sv) ==
    LET term == ToLowerCase(Trim(sv))
        Keep(c) == Includes(ToLowerCase(c.title), term)
        matches == Slice(SelectSeq(cs, Keep), 0, 5)
    IN  IF term = <<>> THEN <<>> ELSE [i \in 1..Len(matches) |-> matches[i].title]

---------------------------------------------------------------------------
(* Inputs *)

Pages == {"home", "listing", "domain", "track"}

\* What the user can type into the search box
SearchInputs == {<<>>, <<" ", "A", " ">>, <<"b">>}

RatingOptions == {"0", "4", "4.5"}

DurationOptions == {"all", "short", "medium", "long"}

\* The values of #sortBy; 'newest' stands for a value the comparator has no
\* case for
SortOptions == {"title", "rating", "students", "duration", "newest"}

Query(track, domain, tool, level, q) ==
    [track |-> track, domain |-> domain, tool |-> tool, level |-> level, q |-> q]

\* Query strings the pages are opened with; '' is an absent parameter
Queries ==
    {Query("", "", "", "", <<>>),
     Query("AI", "Space", "", "", <<>>),
     Query("ml", "heal", "", "", <<>>),
     Query("zz", "zz", "R", "Advanced", <<"a">>)}

\* t.toLowerCase().includes(param.toLowerCase()) on the names of the data,
\* for the partial parameters of Queries
NameIncludes(name, param) ==
    \/ name = param
    \/ <<name, param>> \in {<<"ML (Applied)", "ml">>, <<"Health", "heal">>}

NoCounts(opts) ==
    [count |-> [f \in Facets |-> [v \in Range(opts[f]) |-> -1]],
     disabled |-> [f \in Facets |-> [v \in Range(opts[f]) |-> FALSE]],
     all |-> allDisabled]

Shown == [count |-> optCount, disabled |-> optDisabled, all |-> allDisabled]

StaticOptions == [track |-> <<>>, domain |-> <<>>, tool |-> <<>>, level |-> LevelOptions]

---------------------------------------------------------------------------
(* applyFilters *)

\* applyFilters of listing.js, run with the controls holding sv, S, rv, dv, so;
\* old is what the option labels show before
\* applyFilters of listing.js leaving currentPage as it is
ListingKeptPage == currentPage

\* currentPage = 1 in applyFilters of listing.js
ListingResetPage == 1

\* currentPage = 1 in applyFilters of index.js
HomeResetPage == 1

ListingApplyFilters(opts, sv, S, rv, dv, so, old) ==
    LET fc == SortCourses(ListingFilter(courses, sv, S, rv, dv), so)
        meta == UpdateMetaTags(SelectValue(opts.track, S.track),
                               SelectValue(opts.domain, S.domain),
                               SelectValue(opts.tool, S.tool),
                               SelectValue(opts.level, S.level), metaKeywords)
        shown == ListingFilterCounts(courses, opts, sv, S, rv, dv, old)
    IN  /\ searchValue' = sv
        /\ sel' = S
        /\ ratingValue' = rv
        /\ durationValue' = dv
        /\ sortValue' = so
        /\ options' = opts
        /\ filteredCourses' = fc
        /\ currentPage' = ListingResetPage
        /\ docTitle' = meta.title
        /\ metaDesc' = meta.desc
        /\ metaKeywords' = meta.keywords
        /\ pagesShown' = RenderPagination(fc, ListingResetPage)
        /\ optCount' = shown.count
        /\ optDisabled' = shown.disabled
        /\ allDisabled' = shown.all
        /\ chips' = ListingChips(opts, sv, S, rv, dv)

\* applyFilters of index.js
HomeApplyFilters(opts, sv, S, so, old) ==
    LET fc == SortCourses(HomeFilter(courses, sv, Values(opts, S)), so)
        shown == HomeFilterCounts(courses, opts, sv, S, old)
    IN  /\ searchValue' = sv
        /\ sel' = S
        /\ sortValue' = so
        /\ options' = opts
        /\ filteredCourses' = fc
        /\ currentPage' = HomeResetPage
        /\ optCount' = shown.count
        /\ optDisabled' = shown.disabled
        /\ allDisabled' = shown.all
        /\ chips' = HomeChips(sv, Values(opts, S))
        /\ UNCHANGED <<ratingValue, durationValue, pagesShown, docTitle, metaDesc,
                       metaKeywords>>

\* applyFilters of the loaded page
ApplyFilters(sv, S, rv, dv, so) ==
    IF page = "listing"
    THEN ListingApplyFilters(options, sv, S, rv, dv, so, Shown)
    ELSE HomeApplyFilters(options, sv, S, so, Shown)

---------------------------------------------------------------------------
(* Page initialisation (the DOMContentLoaded listener of the page script) *)

\* applyQueryParams
ApplyQueryParams(opts, q) ==
    [f \in Facets |-> IF q[f] # "" THEN SetSelectValue(opts[f], q[f]) ELSE {}]

\* init of listing.js
ListingInit ==
    /\ page = "listing"
    /\ IF PopulateFiltersThrows(courses)
       THEN /\ error' = TRUE
            /\ UNCHANGED <<courses, filterVars>>
       ELSE /\ ListingApplyFilters(PopulateFilters(courses),
                                   IF query.q # <<>> THEN query.q ELSE searchValue,
                                   ApplyQueryParams(PopulateFilters(courses), query),
                                   ratingValue, durationValue, sortValue,
                                   NoCounts(PopulateFilters(courses)))
            /\ UNCHANGED <<error, courses, currentView, suggestions, featured, pageList>>
    /\ UNCHANGED categoryVars

\* init of index.js
HomeInit ==
    /\ page = "home"
    /\ IF PopulateFiltersThrows(courses)
       THEN /\ error' = TRUE
            /\ UNCHANGED <<courses, filterVars, categoryVars>>
       ELSE /\ categoriesShown' = RenderCategories(courses, categoriesPage).shown
            /\ categoriesButton' = RenderCategories(courses, categoriesPage).button
            /\ UNCHANGED categoriesPage
            /\ HomeApplyFilters(PopulateFilters(courses), searchValue, sel, sortValue,
                                HomeFilterCounts(courses, PopulateFilters(courses),
                                                 searchValue, sel,
                                                 NoCounts(PopulateFilters(courses))))
            /\ courses' = RenderFeaturedCourses(courses).courses
            /\ featured' = RenderFeaturedCourses(courses).featured
            /\ UNCHANGED <<error, currentView, suggestions, pageList>>

\* The first track in allTracks that the find callback accepts is reached
\* without calling toLowerCase on an undefined track
RECURSIVE FindTrack(_, _)
FindTrack(cs, param) ==
    IF cs = <<>> THEN [throws |-> FALSE, match |-> ""]
    ELSE IF "track" \in Head(cs).undef THEN [throws |-> TRUE, match |-> ""]
    ELSE IF NameIncludes(Head(cs).track, param) THEN [throws |-> FALSE, match |-> Head(cs).track]
    ELSE FindTrack(Tail(cs), param)

HasTrack(c, track) == "track" \notin c.undef /\ c.track = track

\* The courses init of track.js lists: exact match, else the first partial match
TrackFiltered(cs, param) ==
    LET Exact(c) == HasTrack(c, param)
        found == FindTrack(cs, param)
        Partial(c) == HasTrack(c, found.match)
    IN  IF SelectSeq(cs, Exact) # <<>> THEN [throws |-> FALSE, list |-> SelectSeq(cs, Exact)]
        ELSE IF found.throws THEN [throws |-> TRUE, list |-> <<>>]
        ELSE IF found.match # "" THEN [throws |-> FALSE, list |-> SelectSeq(cs, Partial)]
        ELSE [throws |-> FALSE, list |-> <<>>]

\* init of track.js
TrackInit ==
    /\ page = "track"
    /\ LET r == TrackFiltered(courses, query.track)
       IN  IF query.track = "" THEN UNCHANGED <<error, pageList>>
           ELSE IF r.throws \/ \E i \in 1..Len(r.list) : "domains" \in r.list[i].undef
           THEN error' = TRUE /\ UNCHANGED pageList
           ELSE /\ pageList' = SortCourses(r.list, "title")
                /\ UNCHANGED error
    /\ UNCHANGED <<courses, searchValue, options, sel, ratingValue, durationValue,
                   sortValue, currentView, currentPage, filteredCourses, optCount,
                   optDisabled, allDisabled, chips, pagesShown, suggestions, featured,
                   docTitle, metaDesc, metaKeywords, categoryVars>>

HasDomain(c, domain) == "domains" \notin c.undef /\ domain \in c.domains

\* The courses init of domain.js lists: exact match, else the first partial
\* match among all domains in order of appearance
DomainFiltered(cs, param) ==
    LET Exact(c) == HasDomain(c, param)
        all == UNION {IF "domains" \in cs[i].undef THEN {} ELSE cs[i].domains : i \in 1..Len(cs)}
        hits == {d \in all : NameIncludes(d, param)}
        First(d) == CHOOSE i \in 1..Len(cs) : HasDomain(cs[i], d)
                                              /\ \A j \in 1..(i - 1) : ~HasDomain(cs[j], d)
        match == CHOOSE d \in hits : \A e \in hits :
                     \/ First(d) < First(e)
                     \/ (First(d) = First(e) /\ NameRank(d) <= NameRank(e))
        Partial(c) == HasDomain(c, match)
    IN  IF SelectSeq(cs, Exact) # <<>> THEN SelectSeq(cs, Exact)
        ELSE IF hits # {} THEN SelectSeq(cs, Partial)
        ELSE <<>>

\* init of domain.js
DomainInit ==
    /\ page = "domain"
    /\ LET list == DomainFiltered(courses, query.domain)
       IN  IF query.domain = "" THEN UNCHANGED <<error, pageList>>
           ELSE IF \E i \in 1..Len(list) : "tools" \in list[i].undef
           THEN error' = TRUE /\ UNCHANGED pageList
           ELSE /\ pageList' = SortCourses(list, "title")
                /\ UNCHANGED error
    /\ UNCHANGED <<courses, searchValue, options, sel, ratingValue, durationValue,
                   sortValue, currentView, currentPage, filteredCourses, optCount,
                   optDisabled, allDisabled, chips, pagesShown, suggestions, featured,
                   docTitle, metaDesc, metaKeywords, categoryVars>>

\* The DOMContentLoaded listener of home.js: renderCategoriesHome and
\* renderFeaturedCoursesHome (the workshops, mentors and testimonials it
\* renders are fixed data)
LandingInit ==
    /\ page = "landing"
    /\ categoriesShown' = RenderCategories(courses, categoriesPage).shown
    /\ categoriesButton' = RenderCategories(courses, categoriesPage).button
    /\ featured' = Slice(SortFeatured(courses), 0, 6)
    /\ UNCHANGED <<error, courses, searchValue, options, sel, ratingValue, durationValue,
                   sortValue, currentView, currentPage, filteredCourses, optCount,
                   optDisabled, allDisabled, chips, pagesShown, suggestions, pageList,
                   docTitle, metaDesc, metaKeywords, categoriesPage>>

---------------------------------------------------------------------------
(* theme.js and scroll.js *)

\* applySavedTheme
applySavedTheme(saved) == saved = "dark"

\* toggleBtn showing the button from the threshold on
toggleBtnFromThreshold(y) == ~(y >= ScrollThreshold)

\* toggleBtn of scroll.js: whether the button carries the class 'hidden'
toggleBtn(y) == ~(y > ScrollThreshold)

\* The DOMContentLoaded listeners of theme.js and scroll.js
ChromeInit ==
    /\ htmlDark' = applySavedTheme(storedTheme)
    /\ scrollBtnHidden' = toggleBtn(scrollY)
    /\ UNCHANGED <<storedTheme, scrollY>>

\* toggleDarkMode storing the theme that was active before the click
toggleDarkModeStale(isDarkBefore) ==
    [dark |-> ~isDarkBefore, theme |-> IF isDarkBefore THEN "dark" ELSE "light"]

\* toggleDarkMode: classList.toggle returns whether the class is now present
toggleDarkMode(isDarkBefore) ==
    [dark |-> ~isDarkBefore, theme |-> IF ~isDarkBefore THEN "dark" ELSE "light"]

DarkModeClick ==
    /\ ready
    /\ htmlDark' = toggleDarkMode(htmlDark).dark
    /\ storedTheme' = toggleDarkMode(htmlDark).theme
    /\ UNCHANGED <<page, keywordsBase, ready, error, courses, query, filterVars, scrollY, scrollBtnHidden,
                   categoryVars, budget, lastEvent>>

ScrollPositions == {0, ScrollThreshold, ScrollThreshold + 1, 2 * ScrollThreshold}

\* The user scrolls; the scroll listener exists once scroll.js has run
Scroll(y) ==
    /\ y # scrollY
    /\ scrollY' = y
    /\ scrollBtnHidden' = IF ready THEN toggleBtn(y) ELSE scrollBtnHidden
    /\ UNCHANGED <<page, keywordsBase, ready, error, courses, query, filterVars, storedTheme, htmlDark,
                   categoryVars, budget, lastEvent>>

\* Click on #scrollTopBtn: scrollTo top, whose scroll events run toggleBtn
ScrollTopClick ==
    /\ ready
    /\ ~scrollBtnHidden
    /\ scrollY' = 0
    /\ scrollBtnHidden' = toggleBtn(0)
    /\ UNCHANGED <<page, keywordsBase, ready, error, courses, query, filterVars, storedTheme, htmlDark,
                   categoryVars, budget, lastEvent>>

---------------------------------------------------------------------------
(* Page loads *)

LoadHome ==
    /\ ~ready
    /\ ready' = TRUE
    /\ HomeInit
    /\ ChromeInit
    /\ UNCHANGED <<page, keywordsBase, query, budget, lastEvent>>

LoadListing ==
    /\ ~ready
    /\ ready' = TRUE
    /\ ListingInit
    /\ ChromeInit
    /\ UNCHANGED <<page, keywordsBase, query, budget, lastEvent>>

LoadDomain ==
    /\ ~ready
    /\ ready' = TRUE
    /\ DomainInit
    /\ ChromeInit
    /\ UNCHANGED <<page, keywordsBase, query, budget, lastEvent>>

LoadTrack ==
    /\ ~ready
    /\ ready' = TRUE
    /\ TrackInit
    /\ ChromeInit
    /\ UNCHANGED <<page, keywordsBase, query, budget, lastEvent>>

\* The page that loads home.js
LoadLanding ==
    /\ ~ready
    /\ ready' = TRUE
    /\ LandingInit
    /\ ChromeInit
    /\ UNCHANGED <<page, keywordsBase, query, budget, lastEvent>>

---------------------------------------------------------------------------
(* Event handlers of the home and listing pages *)

\* The listeners were attached by init, and the session may go on
Interactive == ready /\ ~error /\ page \in {"home", "listing"} /\ budget # 0

\* No user event was handled yet
NoEvent == [name |-> "none", page |-> 1]

\* One user event is spent
Spend(name) ==
    /\ budget' = IF budget > 0 THEN budget - 1 ELSE budget
    /\ lastEvent' = [name |-> name, page |-> currentPage]

\* Frame of a handler that ends in applyFilters
AfterApply(name) ==
    /\ Spend(name)
    /\ UNCHANGED <<page, keywordsBase, ready, error, courses, query, currentView, featured,
                   pageList, chromeVars, categoryVars>>

\* input event of #searchInput: handleSearchInput
SearchInput(s) ==
    /\ Interactive
    /\ s # searchValue
    /\ ApplyFilters(s, sel, ratingValue, durationValue, sortValue)
    /\ suggestions' = Suggestions(courses, s)
    /\ AfterApply("search")

\* mousedown on a suggestion
PickSuggestion(i) ==
    /\ Interactive
    /\ i \in 1..Len(suggestions)
    /\ ApplyFilters(suggestions[i], sel, ratingValue, durationValue, sortValue)
    /\ suggestions' = <<>>
    /\ AfterApply("suggestion")

\* blur of #searchInput (and its 100 ms timer): the dropdown is hidden
SearchBlur ==
    /\ Interactive
    /\ suggestions # <<>>
    /\ suggestions' = <<>>
    /\ UNCHANGED <<page, keywordsBase, ready, error, courses, query, searchValue, options, sel,
                   ratingValue, durationValue, sortValue, currentView, currentPage,
                   filteredCourses, optCount, optDisabled, allDisabled, chips,
                   pagesShown, featured, pageList, docTitle, metaDesc, metaKeywords,
                   chromeVars, categoryVars>>
    /\ Spend("blur")

\* The user selects or deselects one option of a multi-select (listing page);
\* a disabled option cannot be picked
ToggleOption(f, v) ==
    /\ Interactive
    /\ page = "listing"
    /\ v \in Range(options[f])
    /\ v \in sel[f] \/ ~optDisabled[f][v]
    /\ ApplyFilters(searchValue,
                    [sel EXCEPT ![f] = IF v \in @ THEN @ \ {v} ELSE @ \cup {v}],
                    ratingValue, durationValue, sortValue)
    /\ UNCHANGED suggestions
    /\ AfterApply("filter")

\* The user picks another option of a single select (home page); '' is the
\* placeholder
SelectOption(f, v) ==
    /\ Interactive
    /\ page = "home"
    /\ v = "" \/ (v \in Range(options[f]) /\ ~optDisabled[f][v])
    /\ v # SelectValue(options[f], sel[f])
    /\ ApplyFilters(searchValue, [sel EXCEPT ![f] = IF v = "" THEN {} ELSE {v}],
                    ratingValue, durationValue, sortValue)
    /\ UNCHANGED suggestions
    /\ AfterApply("filter")

ChangeRating(v) ==
    /\ Interactive
    /\ page = "listing"
    /\ v # ratingValue
    /\ ApplyFilters(searchValue, sel, v, durationValue, sortValue)
    /\ UNCHANGED suggestions
    /\ AfterApply("rating")

ChangeDuration(v) ==
    /\ Interactive
    /\ page = "listing"
    /\ v # durationValue
    /\ ApplyFilters(searchValue, sel, ratingValue, v, sortValue)
    /\ UNCHANGED suggestions
    /\ AfterApply("duration")

ChangeSort(v) ==
    /\ Interactive
    /\ v # sortValue
    /\ ApplyFilters(searchValue, sel, ratingValue, durationValue, v)
    /\ UNCHANGED suggestions
    /\ AfterApply("sort")

\* renderCourses of listing.js, as far as it changes the state
ListingRenderCourses(cp) ==
    /\ currentPage' = cp
    /\ pagesShown' = RenderPagination(filteredCourses, cp)
    /\ UNCHANGED <<searchValue, options, sel, ratingValue, durationValue, sortValue,
                   filteredCourses, optCount, optDisabled, allDisabled, chips,
                   suggestions, featured, pageList, docTitle, metaDesc, metaKeywords>>

\* A view button that re-applies the filters on the listing page as well
ViewClickReapplying(view) ==
    /\ Interactive
    /\ currentView' = view
    /\ ApplyFilters(searchValue, sel, ratingValue, durationValue, sortValue)
    /\ UNCHANGED <<suggestions, featured, pageList>>
    /\ Spend("view")
    /\ UNCHANGED <<page, keywordsBase, ready, error, courses, query, chromeVars, categoryVars>>

\* click on #gridView / #listView: the listing page re-renders, the home
\* page re-applies the filters
ViewClick(view) ==
    /\ Interactive
    /\ currentView' = view
    /\ IF page = "listing"
       THEN ListingRenderCourses(currentPage)
       ELSE /\ ApplyFilters(searchValue, sel, ratingValue, durationValue, sortValue)
            /\ UNCHANGED <<suggestions, featured, pageList>>
    /\ Spend("view")
    /\ UNCHANGED <<page, keywordsBase, ready, error, courses, query, chromeVars, categoryVars>>

\* removeFilter of listing.js deselecting every option of the facet, as the
\* single selects of index.js do
RemoveFilterWholeFacet(type, value) ==
    [search |-> IF type = "search" THEN <<>> ELSE searchValue,
     sel |-> IF type \in Facets THEN [sel EXCEPT ![type] = {}] ELSE sel,
     rating |-> IF type = "rating" /\ page = "listing" THEN "0" ELSE ratingValue,
     duration |-> IF type = "duration" /\ page = "listing" THEN "all" ELSE durationValue]

\* removeFilter(type, value): the controls after the switch statement
RemoveFilter(type, value) ==
    [search |-> IF type = "search" THEN <<>> ELSE searchValue,
     sel |-> IF type \in Facets
             THEN [sel EXCEPT ![type] = IF page = "listing" THEN @ \ {value} ELSE {}]
             ELSE sel,
     rating |-> IF type = "rating" /\ page = "listing" THEN "0" ELSE ratingValue,
     duration |-> IF type = "duration" /\ page = "listing" THEN "all" ELSE durationValue]

\* click on a chip
ChipClick(i) ==
    /\ Interactive
    /\ i \in 1..Len(chips)
    /\ chips[i] # ClearAllChip
    /\ LET r == RemoveFilter(chips[i].type, chips[i].value)
       IN  ApplyFilters(r.search, r.sel, r.rating, r.duration, sortValue)
    /\ UNCHANGED suggestions
    /\ AfterApply("chip")

\* clearAllFilters of listing.js without the reset of #ratingFilter
ClearAllFiltersKeepingRating ==
    [search |-> <<>>,
     sel |-> NoSelection,
     rating |-> ratingValue,
     duration |-> IF page = "listing" THEN "all" ELSE durationValue]

\* clearAllFilters: the controls before applyFilters
ClearAllFilters ==
    [search |-> <<>>,
     sel |-> NoSelection,
     rating |-> IF page = "listing" THEN "0" ELSE ratingValue,
     duration |-> IF page = "listing" THEN "all" ELSE durationValue]

\* click on the 'Clear all' button
ClearAllClick ==
    /\ Interactive
    /\ ClearAllChip \in Range(chips)
    /\ LET r == ClearAllFilters
       IN  ApplyFilters(r.search, r.sel, r.rating, r.duration, sortValue)
    /\ UNCHANGED suggestions
    /\ AfterApply("clear")

Example(track, domain, tool, level) ==
    [track |-> track, domain |-> domain, tool |-> tool, level |-> level]

filterShowcaseExamples == <<
    Example("", "", "Python", "Beginner"),
    Example("", "AI Research & Scientific Discovery", "", "Intermediate"),
    Example("AI for Space, Geospatial & Planetary Science", "", "", "Advanced"),
    Example("SCIENTIFIC AI, QUANTUM COMPUTING & NEUROMORPHIC RESEARCH", "", "", "Expert") >>

\* click on a filter-showcase button (home page)
ShowcaseClick(e) ==
    /\ Interactive
    /\ page = "home"
    /\ ApplyFilters(<<>>,
                    [f \in Facets |-> IF filterShowcaseExamples[e][f] # ""
                                      THEN SetSelectValue(options[f], filterShowcaseExamples[e][f])
                                      ELSE {}],
                    ratingValue, durationValue, sortValue)
    /\ UNCHANGED suggestions
    /\ AfterApply("showcase")

---------------------------------------------------------------------------
(* Pagination *)

PaginationFrame(name) ==
    /\ Spend(name)
    /\ UNCHANGED <<page, keywordsBase, ready, error, courses, query, currentView, chromeVars,
                   categoryVars>>

\* click on Prev (listing page)
PrevClick ==
    /\ Interactive
    /\ page = "listing"
    /\ pagesShown # <<>>
    /\ currentPage > 1
    /\ ListingRenderCourses(currentPage - 1)
    /\ PaginationFrame("prev")

\* click on Next (listing page)
NextClick ==
    /\ Interactive
    /\ page = "listing"
    /\ pagesShown # <<>>
    /\ currentPage < TotalPages(filteredCourses)
    /\ ListingRenderCourses(currentPage + 1)
    /\ PaginationFrame("next")

\* click on a page-number button (listing page); the current page's is disabled
PageClick(i) ==
    /\ Interactive
    /\ page = "listing"
    /\ PageButton(i) \in Range(pagesShown)
    /\ i # currentPage
    /\ ListingRenderCourses(i)
    /\ PaginationFrame("page")

\* click on Load More (home page)
LoadMoreClick ==
    /\ Interactive
    /\ page = "home"
    /\ LoadMoreShown(filteredCourses, currentPage)
    /\ currentPage' = currentPage + 1
    /\ UNCHANGED <<searchValue, options, sel, ratingValue, durationValue, sortValue,
                   filteredCourses, optCount, optDisabled, allDisabled, chips,
                   pagesShown, suggestions, featured, pageList, docTitle, metaDesc,
                   metaKeywords>>
    /\ PaginationFrame("more")

---------------------------------------------------------------------------
(* Category paging *)

\* Frame of the click listeners of the button below the categories
CategoriesFrame(name) ==
    /\ Spend(name)
    /\ UNCHANGED <<page, keywordsBase, ready, error, courses, query, filterVars, chromeVars>>

\* click on 'Show More': categoriesPage++; renderCategories()
ShowMoreClick ==
    /\ ready
    /\ ~error
    /\ categoriesButton = "Show More"
    /\ categoriesPage' = categoriesPage + 1
    /\ categoriesShown' = RenderCategories(courses, categoriesPage + 1).shown
    /\ categoriesButton' = RenderCategories(courses, categoriesPage + 1).button
    /\ CategoriesFrame("showMore")

\* click on 'Show Less': categoriesPage = 1; renderCategories()
ShowLessClick ==
    /\ ready
    /\ ~error
    /\ categoriesButton = "Show Less"
    /\ categoriesPage' = 1
    /\ categoriesShown' = RenderCategories(courses, 1).shown
    /\ categoriesButton' = RenderCategories(courses, 1).button
    /\ CategoriesFrame("showLess")

---------------------------------------------------------------------------
(* Specifications *)

\* The state of a freshly parsed page, before DOMContentLoaded
FreshPage ==
    /\ ready = FALSE
    /\ error = FALSE
    /\ searchValue = <<>>
    /\ options = StaticOptions
    /\ sel = NoSelection
    /\ ratingValue = "0"
    /\ durationValue = "all"
    /\ sortValue = "title"
    /\ currentView = "grid"
    /\ currentPage = 1
    /\ filteredCourses = <<>>
    /\ allDisabled \in {[f \in Facets |-> b] : b \in BOOLEAN}
    /\ optCount = NoCounts(StaticOptions).count
    /\ optDisabled = NoCounts(StaticOptions).disabled
    /\ chips = <<>>
    /\ pagesShown = <<>>
    /\ suggestions = <<>>
    /\ featured = <<>>
    /\ pageList = <<>>
    /\ docTitle = BaseTitle
    /\ metaDesc = BaseDesc
    /\ metaKeywords = StaticKeywords
    /\ categoriesPage = 1
    /\ categoriesShown = <<>>
    /\ categoriesButton = "none"

\* A first visit, at the top of the page, with no stored preference
FreshChrome ==
    /\ storedTheme = "none"
    /\ htmlDark = FALSE
    /\ scrollY = 0
    /\ scrollBtnHidden = TRUE

\* The four pages over course data of up to MaxCourses well-formed records
Init ==
    /\ page \in Pages
    /\ courses \in {CourseData(n) : n \in 0..MaxCourses}
    /\ query \in Queries
    /\ FreshPage
    /\ FreshChrome
    /\ keywordsBase = KeywordsDataBase
    /\ budget = MaxSteps
    /\ lastEvent = NoEvent

Next ==
    \/ LoadHome
    \/ LoadListing
    \/ LoadDomain
    \/ LoadTrack
    \/ \E s \in SearchInputs : SearchInput(s)
    \/ \E i \in 1..5 : PickSuggestion(i)
    \/ SearchBlur
    \/ \E f \in Facets : \E v \in Range(options[f]) : ToggleOption(f, v)
    \/ \E f \in Facets : \E v \in Range(options[f]) \cup {""} : SelectOption(f, v)
    \/ \E v \in RatingOptions : ChangeRating(v)
    \/ \E v \in DurationOptions : ChangeDuration(v)
    \/ \E v \in SortOptions : ChangeSort(v)
    \/ \E view \in {"grid", "list"} : ViewClick(view)
    \/ \E i \in 1..Len(chips) : ChipClick(i)
    \/ ClearAllClick
    \/ \E e \in 1..Len(filterShowcaseExamples) : ShowcaseClick(e)

Spec == Init /\ [][Next]_vars

\* The user reloads the page: a new document, whose markup may or may not
\* carry the classes, over the same localStorage and the restored scroll
\* position
Reload ==
    /\ ready
    /\ ready' = FALSE
    /\ error' = FALSE
    /\ searchValue' = <<>>
    /\ options' = StaticOptions
    /\ sel' = NoSelection
    /\ ratingValue' = "0"
    /\ durationValue' = "all"
    /\ sortValue' = "title"
    /\ currentView' = "grid"
    /\ currentPage' = 1
    /\ filteredCourses' = <<>>
    /\ allDisabled' \in {[f \in Facets |-> b] : b \in BOOLEAN}
    /\ optCount' = NoCounts(StaticOptions).count
    /\ optDisabled' = NoCounts(StaticOptions).disabled
    /\ chips' = <<>>
    /\ pagesShown' = <<>>
    /\ suggestions' = <<>>
    /\ featured' = <<>>
    /\ pageList' = <<>>
    /\ docTitle' = BaseTitle
    /\ metaDesc' = BaseDesc
    /\ metaKeywords' = StaticKeywords
    /\ categoriesPage' = 1
    /\ categoriesShown' = <<>>
    /\ categoriesButton' = "none"
    /\ htmlDark' \in BOOLEAN
    /\ scrollBtnHidden' \in BOOLEAN
    /\ lastEvent' = NoEvent
    /\ UNCHANGED <<page, keywordsBase, courses, query, storedTheme, scrollY, budget>>

\* Any page, with a markup that may or may not carry the classes, over a
\* storage that holds no theme or a value theme.js never writes
InitChrome ==
    /\ page \in Pages
    /\ courses = CourseData(MaxCourses)
    /\ query = Query("", "", "", "", <<>>)
    /\ FreshPage
    /\ storedTheme \in {"none", "auto"}
    /\ htmlDark \in BOOLEAN
    /\ scrollY \in ScrollPositions
    /\ scrollBtnHidden \in BOOLEAN
    /\ keywordsBase = KeywordsDataBase
    /\ budget = 0
    /\ lastEvent = NoEvent

\* Page loads and reloads, the dark mode toggle and scrolling
NextChrome ==
    \/ LoadHome
    \/ LoadListing
    \/ LoadDomain
    \/ LoadTrack
    \/ Reload
    \/ DarkModeClick
    \/ \E y \in ScrollPositions : Scroll(y)
    \/ ScrollTopClick

SpecChrome == InitChrome /\ [][NextChrome]_vars

\* Course lists that fill 0..MaxPages listing pages exactly, or spill one
\* course onto a further page
PagingSizes ==
    {coursesPerPage * k : k \in 0..MaxPages}
        \cup {coursesPerPage * k + 1 : k \in 0..(MaxPages - 1)}

\* The home and listing pages over long course lists, opened without
\* parameters
InitPagination ==
    /\ page \in {"home", "listing"}
    /\ courses \in {CourseData(n) : n \in PagingSizes}
    /\ query = Query("", "", "", "", <<>>)
    /\ FreshPage
    /\ FreshChrome
    /\ keywordsBase = KeywordsDataBase
    /\ budget = Unlimited
    /\ lastEvent = NoEvent

\* Paging and the view buttons
NextPagination ==
    \/ LoadHome
    \/ LoadListing
    \/ PrevClick
    \/ NextClick
    \/ \E i \in 1..MaxPages : PageClick(i)
    \/ LoadMoreClick
    \/ \E view \in {"grid", "list"} : ViewClick(view)

SpecPagination == InitPagination /\ [][NextPagination]_vars

\* Enough courses for a third listing page and a second batch on the home page
PagedCourses == 2 * coursesPerPage + 1

\* The home and listing pages over PagedCourses courses
InitPaged ==
    /\ page \in {"home", "listing"}
    /\ courses = CourseData(PagedCourses)
    /\ query \in {Query("", "", "", "", <<>>), Query("AI", "Space", "", "", <<>>),
                  Query("", "", "R", "Advanced", <<"a">>)}
    /\ FreshPage
    /\ FreshChrome
    /\ keywordsBase = KeywordsDataBase
    /\ budget = MaxSteps + 2
    /\ lastEvent = NoEvent

\* Paging between the events that apply the filters, each with the inputs
\* that matter to paging
NextPaged ==
    \/ LoadHome
    \/ LoadListing
    \/ SearchInput(<<"b">>)
    \/ PickSuggestion(1)
    \/ SearchBlur
    \/ \E v \in Range(options.track) : ToggleOption("track", v)
    \/ \E v \in Range(options.track) \cup {""} : SelectOption("track", v)
    \/ ChangeRating("4")
    \/ ChangeDuration("long")
    \/ ChangeSort("rating")
    \/ \E view \in {"grid", "list"} : ViewClick(view)
    \/ \E i \in 1..Len(chips) : ChipClick(i)
    \/ ClearAllClick
    \/ ShowcaseClick(1)
    \/ PrevClick
    \/ NextClick
    \/ \E i \in 1..MaxPages : PageClick(i)
    \/ LoadMoreClick

SpecPaged == InitPaged /\ [][NextPaged]_vars

\* A record of coursesData that lacks one property
Lacking(c, prop) ==
    [c EXCEPT !.undef = {prop},
              !.track = IF prop = "track" THEN "" ELSE @,
              !.domains = IF prop = "domains" THEN {} ELSE @,
              !.tools = IF prop = "tools" THEN {} ELSE @]

\* The lists of n records in which at most one record lacks its track, its
\* domains or its tools
AnyCourseData(n) ==
    {CourseData(n)} \cup
    {[CourseData(n) EXCEPT ![k] = Lacking(@, prop)] :
        k \in 1..n, prop \in {"track", "domains", "tools"}}

\* The four pages over any such course data
InitAnyData ==
    /\ page \in Pages
    /\ courses \in UNION {AnyCourseData(n) : n \in 0..MaxCourses}
    /\ query \in Queries
    /\ FreshPage
    /\ FreshChrome
    /\ keywordsBase = KeywordsDataBase
    /\ budget = 0
    /\ lastEvent = NoEvent

\* Page initialisation only
NextAnyData ==
    \/ LoadHome
    \/ LoadListing
    \/ LoadDomain
    \/ LoadTrack

SpecAnyData == InitAnyData /\ [][NextAnyData]_vars

\* The two pages with category cards over catalogs of 0..MaxCategories
\* domains
InitCategories ==
    /\ page \in {"home", "landing"}
    /\ courses \in {CategoryCourses(n) : n \in 0..MaxCategories}
    /\ query = Query("", "", "", "", <<>>)
    /\ FreshPage
    /\ FreshChrome
    /\ keywordsBase = KeywordsDataBase
    /\ budget = Unlimited
    /\ lastEvent = NoEvent

\* The category button, between loads, reloads and the course list's own
\* paging and view buttons
NextCategories ==
    \/ LoadHome
    \/ LoadLanding
    \/ Reload
    \/ ShowMoreClick
    \/ ShowLessClick
    \/ LoadMoreClick
    \/ \E view \in {"grid", "list"} : ViewClick(view)

SpecCategories == InitCategories /\ [][NextCategories]_vars

\* The listing page over a markup whose keywords meta has a data-base
\* attribute or has none
InitMeta ==
    /\ page = "listing"
    /\ courses \in {CourseData(n) : n \in 0..MaxCourses}
    /\ query \in Queries
    /\ FreshPage
    /\ FreshChrome
    /\ keywordsBase \in {KeywordsDataBase, <<>>}
    /\ budget = MaxSteps
    /\ lastEvent = NoEvent

\* The handlers of the listing page
NextMeta ==
    \/ LoadListing
    \/ \E s \in SearchInputs : SearchInput(s)
    \/ \E i \in 1..5 : PickSuggestion(i)
    \/ SearchBlur
    \/ \E f \in Facets : \E v \in Range(options[f]) : ToggleOption(f, v)
    \/ \E v \in RatingOptions : ChangeRating(v)
    \/ \E v \in DurationOptions : ChangeDuration(v)
    \/ \E v \in SortOptions : ChangeSort(v)
    \/ \E view \in {"grid", "list"} : ViewClick(view)
    \/ \E i \in 1..Len(chips) : ChipClick(i)
    \/ ClearAllClick

SpecMeta == InitMeta /\ [][NextMeta]_vars

---------------------------------------------------------------------------
(* Filter counts *)

Loaded == ready /\ ~error

\* C1: on the listing page, once updateFilterCounts has run over a non-empty
\* course list, the count shown on every option v of every facet is the number
\* of courses applyFilters returns with v selected in addition to the facet's
\* current selections, everything else unchanged.
ListingCountsMatchApplyFilters ==
    (Loaded /\ page = "listing" /\ Len(courses) > 0) =>
        \A f \in Facets : \A v \in Range(options[f]) :
            optCount[f][v] = Len(ListingFilter(courses, searchValue,
                                               [sel EXCEPT ![f] = @ \cup {v}],
                                               ratingValue, durationValue))

\* An unselected option of a facet that already holds a selection, beside a
\* selection in another facet, shows a count that differs from the count the
\* option would have on its own.
ListingCountsWitness ==
    /\ Loaded
    /\ page = "listing"
    /\ \E f \in Facets : \E v \in Range(options[f]) :
        /\ sel[f] # {}
        /\ v \notin sel[f]
        /\ \E g \in Facets \ {f} : sel[g] # {}
        /\ optCount[f][v] > 0
        /\ optCount[f][v] # Len(ListingFilter(courses, searchValue,
                                              [sel EXCEPT ![f] = {v}],
                                              ratingValue, durationValue))

\* C2: on the home page, once updateFilterCounts has run over a non-empty
\* course list, the count shown on every option v of a facet is the number of
\* courses applyFilters returns with that select set to v and the search term
\* and the other three selects unchanged.
HomeCountsMatchApplyFilters ==
    (Loaded /\ page = "home" /\ Len(courses) > 0) =>
        \A f \in Facets : \A v \in Range(options[f]) :
            optCount[f][v] = Len(HomeFilter(courses, searchValue,
                                            [Values(options, sel) EXCEPT ![f] = v]))

\* A search term and two other selects are set, and some option of a third
\* facet shows a count between zero and the number of courses.
HomeCountsWitness ==
    /\ Loaded
    /\ page = "home"
    /\ Trim(searchValue) # <<>>
    /\ \E f \in Facets : \E v \in Range(options[f]) :
        /\ sel[f] = {}
        /\ Cardinality({g \in Facets : sel[g] # {}}) >= 2
        /\ optCount[f][v] > 0
        /\ optCount[f][v] < Len(courses)

\* C3: on the home and listing pages, once updateFilterCounts has run over a
\* non-empty course list, every option with a value is disabled exactly when
\* the count it shows is zero, and the placeholder option of every select is
\* enabled.
DisabledIffCountZero ==
    (Loaded /\ page \in {"home", "listing"} /\ Len(courses) > 0) =>
        \A f \in Facets :
            /\ \A v \in Range(options[f]) : optDisabled[f][v] <=> (optCount[f][v] = 0)
            /\ ~allDisabled[f]

\* After a user event one select shows a disabled option with count zero next
\* to an enabled option with a count of exactly one.
DisabledIffCountZeroWitness ==
    /\ Loaded
    /\ page \in {"home", "listing"}
    /\ budget < MaxSteps
    /\ \E f \in Facets : \E v, w \in Range(options[f]) :
        /\ optDisabled[f][v] /\ optCount[f][v] = 0
        /\ ~optDisabled[f][w] /\ optCount[f][w] = 1

---------------------------------------------------------------------------
(* Failure modes *)

\* C4: with every looked-up DOM element present, page initialisation on the
\* home, listing, domain and track pages completes without raising an error,
\* whatever the course list and the query string hold.
InitNeverThrows == ~error

---------------------------------------------------------------------------
(* The course list *)

\* C5: no step of any page changes the contents or the order of the global
\* courses array.
CoursesNeverChange == [][courses' = courses]_vars

\* The home page has rendered its featured courses in an order that is not
\* the order of courses, and a handler has sorted the filtered list into yet
\* another order than the array's.
CoursesNeverChangeWitness ==
    /\ Loaded
    /\ page = "home"
    /\ budget < MaxSteps
    /\ Len(courses) = MaxCourses
    /\ featured = SortFeatured(courses)
    /\ featured # courses
    /\ filteredCourses # HomeFilter(courses, searchValue, Values(options, sel))

---------------------------------------------------------------------------
(* Dark mode *)

\* C6: in every state after DOMContentLoaded, whatever dark mode clicks and
\* reloads came before, the root element carries the class 'dark' exactly
\* when the stored theme is 'dark'.
ThemeMatchesStorage == ready => (htmlDark <=> storedTheme = "dark")

\* The listeners have run on a document whose root carries 'dark' over a
\* storage that holds 'dark', which only a click on the toggle writes.
ThemeMatchesStorageWitness == ready /\ htmlDark /\ storedTheme = "dark"

---------------------------------------------------------------------------
(* Pagination *)

\* The events whose handlers end in applyFilters
AppliesFilters ==
    \/ lastEvent.name \in {"search", "suggestion", "filter", "rating", "duration",
                           "sort", "chip", "clear", "showcase"}
    \/ lastEvent.name = "view" /\ page = "home"

\* C7: on the home and listing pages, right after any event whose handler
\* calls applyFilters (search input, suggestion pick, filter or sort change,
\* chip removal, clear all), currentPage is 1.
FirstPageAfterApplyFilters == AppliesFilters => currentPage = 1

\* A chip is removed while a page after the first is shown.
FirstPageAfterApplyFiltersWitness ==
    /\ Loaded
    /\ lastEvent.name = "chip"
    /\ lastEvent.page > 1
    /\ currentPage = 1

\* C8: on the listing page a click on the grid or list button changes
\* currentView and nothing else: currentPage, filteredCourses, the search
\* box, every filter selection and everything rendered from them stay as
\* they are.
ViewClickKeepsPage ==
    [][(page = "listing" /\ lastEvent'.name = "view") =>
        UNCHANGED <<page, keywordsBase, ready, error, courses, query, searchValue, options, sel,
                    ratingValue, durationValue, sortValue, currentPage,
                    filteredCourses, optCount, optDisabled, allDisabled, chips,
                    pagesShown, suggestions, featured, pageList, docTitle, metaDesc,
                    metaKeywords, chromeVars, categoryVars>>]_vars

\* The list view was chosen on a listing page after the first.
ViewClickKeepsPageWitness ==
    /\ Loaded
    /\ page = "listing"
    /\ lastEvent.name = "view"
    /\ lastEvent.page > 1
    /\ currentView = "list"
    /\ currentPage = lastEvent.page

IsPageButton(b) == b.type = "page"

\* The page numbers among the rendered controls, in order
ShownNumbers == [i \in 1..Len(SelectSeq(pagesShown, IsPageButton)) |->
                    SelectSeq(pagesShown, IsPageButton)[i].page]

\* The controls that show the numbers nums with an ellipsis exactly where
\* two consecutive numbers are not adjacent
RECURSIVE WithEllipses(_)
WithEllipses(nums) ==
    IF Len(nums) <= 1 THEN [i \in 1..Len(nums) |-> PageButton(nums[i])]
    ELSE <<PageButton(nums[1])>>
         \o (IF nums[2] # nums[1] + 1 THEN <<Ellipsis>> ELSE <<>>)
         \o WithEllipses(Tail(nums))

\* C9: on the listing page with more than 7 pages the rendered numbers are
\* strictly increasing, include 1, the last page, the current page and its
\* neighbours within 1..totalPages, and an ellipsis stands exactly between
\* two consecutive numbers that are not adjacent; with 2 to 7 pages every
\* page is shown and no ellipsis.
CondensedPageList ==
    (Loaded /\ page = "listing") =>
        LET totalPages == TotalPages(filteredCourses)
            nums == ShownNumbers
        IN  /\ totalPages > 7 =>
                /\ \A i \in 1..(Len(nums) - 1) : nums[i] < nums[i + 1]
                /\ ({1, totalPages, currentPage}
                        \cup ({currentPage - 1, currentPage + 1} \cap (1..totalPages)))
                    \subseteq Range(nums)
                /\ pagesShown = WithEllipses(nums)
            /\ (2 <= totalPages /\ totalPages <= 7) =>
                pagesShown = [i \in 1..totalPages |-> PageButton(i)]

\* A page in the middle of more than 7 is shown, with an ellipsis on either
\* side of its neighbours.
CondensedPageListWitness ==
    /\ Loaded
    /\ page = "listing"
    /\ TotalPages(filteredCourses) > 7
    /\ currentPage > 3
    /\ currentPage < TotalPages(filteredCourses) - 2
    /\ Len(SelectSeq(pagesShown, IsPageButton)) = 5
    /\ Len(pagesShown) = 7

---------------------------------------------------------------------------
(* Active-filter chips *)

IsFilterChip(c) == c # ClearAllChip

\* The values of facet f that filter the courses: the selected options of a
\* multi-select, the value of a single select unless it is the placeholder's
ActiveValues(f) ==
    IF page = "listing" THEN sel[f]
    ELSE {SelectValue(options[f], sel[f])} \ {""}

\* The chips a page should show for its controls: one for the trimmed search
\* term if it is not empty, one for each selected value of each facet and, on
\* the listing page, one for a rating other than '0' and one for a duration
\* other than 'all'
ActiveFilters ==
    (IF Trim(searchValue) # <<>> THEN {Chip("search", "", Trim(searchValue))} ELSE {})
    \cup UNION {{Chip(f, v, <<>>) : v \in ActiveValues(f)} : f \in Facets}
    \cup (IF page = "listing" /\ ratingValue # "0"
          THEN {Chip("rating", ratingValue, <<>>)} ELSE {})
    \cup (IF page = "listing" /\ durationValue # "all"
          THEN {Chip("duration", durationValue, <<>>)} ELSE {})

\* C10: on the home and listing pages, after applyFilters, there is exactly
\* one chip for the non-empty trimmed search term and for each active filter
\* value, no other chip, and the 'Clear all' button is there exactly when
\* there is more than one chip.
ChipsMirrorSelections ==
    (Loaded /\ page \in {"home", "listing"}) =>
        /\ Range(SelectSeq(chips, IsFilterChip)) = ActiveFilters
        /\ Len(SelectSeq(chips, IsFilterChip)) = Cardinality(ActiveFilters)
        /\ (ClearAllChip \in Range(chips)) <=> (Len(SelectSeq(chips, IsFilterChip)) > 1)

\* After a user event the listing page shows chips for a search term, two
\* values of one facet and a rating, and the 'Clear all' button.
ChipsMirrorSelectionsWitness ==
    /\ Loaded
    /\ page = "listing"
    /\ lastEvent # NoEvent
    /\ Trim(searchValue) # <<>>
    /\ \E f \in Facets : Cardinality(sel[f]) = 2
    /\ ratingValue # "0"
    /\ ClearAllChip \in Range(chips)
    /\ Len(chips) >= 5

---------------------------------------------------------------------------
(* Removing and clearing filters *)

\* What applyFilters of the loaded page computes from controls that hold sv,
\* S, rv, dv and so: the courses that pass them, sorted by the selected key
Filtered(sv, S, rv, dv, so) ==
    IF page = "listing"
    THEN SortCourses(ListingFilter(courses, sv, S, rv, dv), so)
    ELSE SortCourses(HomeFilter(courses, sv, Values(options, S)), so)

\* The controls after the filter that chip c names was taken away and nothing
\* else was touched
WithoutChip(c) ==
    /\ searchValue' = (IF c.type = "search" THEN <<>> ELSE searchValue)
    /\ sel' = [f \in Facets |-> IF f = c.type THEN sel[f] \ {c.value} ELSE sel[f]]
    /\ ratingValue' = (IF c.type = "rating" THEN "0" ELSE ratingValue)
    /\ durationValue' = (IF c.type = "duration" THEN "all" ELSE durationValue)
    /\ UNCHANGED <<options, sortValue, courses>>

\* C11: on the home and listing pages a click on the x of a chip removes the
\* one filter value the chip names (the search box is emptied, the rating
\* goes back to '0', the duration to 'all', or the one option is deselected),
\* leaves every other control as it was, the other selected options of the
\* same facet included, and leaves in filteredCourses the courses that pass
\* the remaining controls.
RemoveFilterRemovesOne ==
    [][lastEvent'.name = "chip" =>
        /\ \E i \in 1..Len(chips) : chips[i] # ClearAllChip /\ WithoutChip(chips[i])
        /\ filteredCourses' = Filtered(searchValue', sel', ratingValue', durationValue',
                                     sortValue')]_vars

\* The listing page was opened with a track and a domain in the query string,
\* a second track was selected and then the chip of the first track removed:
\* the second track and the domain are still selected.
RemoveFilterRemovesOneWitness ==
    /\ Loaded
    /\ page = "listing"
    /\ lastEvent.name = "chip"
    /\ budget = MaxSteps - 2
    /\ \E f \in Facets :
        /\ query[f] \in Range(options[f])
        /\ query[f] \notin sel[f]
        /\ sel[f] # {}
        /\ \E g \in Facets \ {f} : sel[g] # {}
        /\ chips = ListingChips(options, searchValue, sel, ratingValue, durationValue)

\* C12: on the home and listing pages, right after clearAllFilters, whatever
\* the search box, the four selects, the rating and the duration held before,
\* every control is back at its default, no chip is displayed, currentPage
\* is 1 and filteredCourses holds every course of the course list, each once.
ClearAllShowsEveryCourse ==
    lastEvent.name = "clear" =>
        /\ searchValue = <<>>
        /\ sel = NoSelection
        /\ page = "listing" => (ratingValue = "0" /\ durationValue = "all")
        /\ chips = <<>>
        /\ currentPage = 1
        /\ Len(filteredCourses) = Len(courses)
        /\ Range(filteredCourses) = Range(courses)

\* 'Clear all' was clicked on a later page of a filtered listing: the first
\* page of the whole course list is shown, without chips.
ClearAllShowsEveryCourseWitness ==
    /\ Loaded
    /\ page = "listing"
    /\ lastEvent.name = "clear"
    /\ lastEvent.page > 1
    /\ currentPage = 1
    /\ chips = <<>>
    /\ Len(filteredCourses) = PagedCourses
    /\ pagesShown # <<>>

\* C13: on the listing page, right after clearAllFilters, currentView is
\* 'grid', whatever view was selected before.
ClearAllResetsView ==
    (page = "listing" /\ lastEvent.name = "clear") => currentView = "grid"

---------------------------------------------------------------------------
(* The filter showcase *)

\* C14: on the home page a click on a filter-showcase example sets the
\* selects for which the example has a field and leaves every other select
\* (track, domain, tool, level) with the selection it had before the click.
ShowcaseKeepsOtherFilters ==
    [][lastEvent'.name = "showcase" =>
        \E e \in 1..Len(filterShowcaseExamples) : \A f \in Facets :
            IF filterShowcaseExamples[e][f] # ""
            THEN sel'[f] = SetSelectValue(options[f], filterShowcaseExamples[e][f])
            ELSE sel'[f] = sel[f]]_vars

\* The courses that have every field of example ex
MatchingExample(ex) ==
    {c \in Range(courses) : HomeMatches(c, <<>>, ex.track, ex.domain, ex.tool, ex.level)}

\* C15: on the home page, right after a click on a filter-showcase example,
\* the search box is empty, each of the four selects holds the example's
\* value for its field, or '' when the example has no such field, and
\* filteredCourses holds exactly the courses that match the example's fields.
ShowcaseAppliesExample ==
    lastEvent.name = "showcase" =>
        \E e \in 1..Len(filterShowcaseExamples) :
            /\ searchValue = <<>>
            /\ \A f \in Facets :
                SelectValue(options[f], sel[f]) = filterShowcaseExamples[e][f]
            /\ Range(filteredCourses) = MatchingExample(filterShowcaseExamples[e])

---------------------------------------------------------------------------
(* Category paging *)

\* Number of distinct domains of the course list
TotalCategories == Len(SortedDomains(courses))

\* The category cards and their button have been rendered
CategoriesRendered == Loaded /\ page \in {"home", "landing"}

\* The cards shown are the first min(categoriesPerPage * categoriesPage,
\* number of distinct domains) domains
CategoryCardsShown ==
    /\ Len(categoriesShown) = Min(categoriesPerPage * categoriesPage, TotalCategories)
    /\ categoriesShown = SubSeq(SortedDomains(courses), 1, Len(categoriesShown))

\* A click on the button that is shown collapses the list to page 1 if it is
\* 'Show Less', and shows the next categoriesPerPage domains, or those that
\* are left, if it is 'Show More'
CategoryClickPages ==
    [][/\ lastEvent'.name = "showLess" =>
            (categoriesButton = "Show Less" /\ categoriesPage' = 1)
       /\ lastEvent'.name = "showMore" =>
            /\ categoriesButton = "Show More"
            /\ categoriesPage' = categoriesPage + 1
            /\ Len(categoriesShown') =
                   Min(Len(categoriesShown) + categoriesPerPage, TotalCategories)]_vars

---------------------------------------------------------------------------
(* The scroll-to-top button *)

\* C17: on every page, once the DOMContentLoaded listener of scroll.js has
\* made its initial check, and after every scroll event from then on,
\* #scrollTopBtn lacks the class 'hidden' exactly when window.scrollY is
\* greater than 200.
ScrollButtonShownBeyondThreshold ==
    ready => (~scrollBtnHidden <=> scrollY > ScrollThreshold)

\* The check has run with the page one pixel beyond the threshold: the
\* button is visible.
ScrollButtonShownBeyondThresholdWitness ==
    /\ ready
    /\ scrollY = ScrollThreshold + 1
    /\ ~scrollBtnHidden

---------------------------------------------------------------------------
(* Meta tags *)

\* The keywords updateMetaTags puts before the base keywords for the values
\* t, d, tool and level of the four selects
KeywordPrefixes(t, d, tool, level) ==
    (IF level # "" THEN <<Piece(Clean(level), " level")>> ELSE <<>>)
    \o (IF tool # "" THEN <<Piece(Clean(tool), "")>> ELSE <<>>)
    \o (IF d # "" THEN <<Piece(Clean(d), " courses")>> ELSE <<>>)
    \o (IF t # "" THEN <<Piece(Clean(t), " courses")>> ELSE <<>>)

\* C18: on the listing page, after any sequence of applyFilters calls, the
\* content of the keywords meta is the prefixes of the current track, domain,
\* tool and level values followed by the keywords of the static markup, and
\* another updateMetaTags call with the same selections would leave the
\* title, the description and the keywords as they are.
KeywordsKeepBase ==
    (Loaded /\ page = "listing") =>
        LET V == Values(options, sel)
        IN  /\ metaKeywords = KeywordPrefixes(V.track, V.domain, V.tool, V.level)
                                  \o StaticKeywords
            /\ UpdateMetaTags(V.track, V.domain, V.tool, V.level, metaKeywords)
                   = [title |-> docTitle, desc |-> metaDesc, keywords |-> metaKeywords]

---------------------------------------------------------------------------
(* The order of the filtered courses *)

\* Course a may stand before course b under sort key sortBy
InOrder(sortBy, a, b) ==
    CASE sortBy = "rating" -> a.rating >= b.rating
      [] sortBy = "students" -> a.students >= b.students
      [] sortBy = "duration" -> a.weeks <= b.weeks
      [] OTHER -> LocaleCompare(a.title, b.title) <= 0

\* The courses that pass the controls as they are, in the order of courses
PassingCourses ==
    IF page = "listing"
    THEN ListingFilter(courses, searchValue, sel, ratingValue, durationValue)
    ELSE HomeFilter(courses, searchValue, Values(options, sel))

\* C19: on the home and listing pages, after every applyFilters,
\* filteredCourses is in non-increasing order of rating for 'rating', of
\* students for 'students', in non-decreasing order of weeks for 'duration'
\* and in ascending order of title for 'title' and any other value of the
\* sort select, and it holds exactly the courses that pass the current
\* filters, each once.
FilteredCoursesSorted ==
    (Loaded /\ page \in {"home", "listing"}) =>
        /\ \A i, j \in 1..Len(filteredCourses) :
            i < j => InOrder(sortValue, filteredCourses[i], filteredCourses[j])
        /\ Range(filteredCourses) = Range(PassingCourses)
        /\ Len(filteredCourses) = Len(PassingCourses)

\* The sort select was changed to 'rating' with a filter set: the courses
\* that pass are listed in another order than the course list's.
FilteredCoursesSortedWitness ==
    /\ Loaded
    /\ lastEvent.name = "sort"
    /\ sortValue = "rating"
    /\ Len(filteredCourses) >= 2
    /\ Len(filteredCourses) < Len(courses)
    /\ filteredCourses # PassingCourses
    /\ filteredCourses[1].rating > filteredCourses[Len(filteredCourses)].rating

=============================================================================
